---- MODULE Spec2Model ----
(***************************************************************************)
(* Reading-order reconstruction for OCR text blocks                        *)
(* (src/data_structures.py, src/text_block_sorter.py).                     *)
(*                                                                         *)
(* A TextBlock is a record                                                 *)
(*   [oid, text, bbox, confidence, direction, block_id]                    *)
(* where oid stands for the identity of the Python object: two list        *)
(* entries with the same oid are the same object, so an assignment to a    *)
(* field of one is seen through the other.  A BoundingBox is a record      *)
(* [x0, y0, x1, y1] of integers.  Python floats that are ratios            *)
(* (overlap ratios, thresholds, confidences) are exact rationals <<n, d>>  *)
(* with d > 0; a center (a + b) / 2 is kept as the doubled value a + b,    *)
(* which orders the same way.                                              *)
(***************************************************************************)
EXTENDS Integers, Sequences, FiniteSets, TLC

VARIABLES
    text_blocks,    \* page_result.text_blocks of the page being processed
    op,             \* the operation that produced the current state
    threshold,      \* overlap_threshold of the last remove_duplicate_blocks call
    input_blocks,   \* text_blocks as they were when the last operation was called
    result_blocks,  \* the list returned by the last sorter operation
    removed_count,  \* the number returned by the last remove_duplicate_blocks call
    pages,          \* document_result.pages
    input_pages,    \* pages as they were when the sorting of the document began
    page_order,     \* the page indices sorted since then, in the order taken
    measured        \* the values the last call of the BoundingBox methods returned

page_vars == <<text_blocks, threshold, input_blocks, result_blocks, removed_count>>

document_vars == <<pages, input_pages, page_order>>

vars == <<page_vars, op, document_vars, measured>>

----------------------------------------------------------------------------
\* Bounds of the model.

\* Largest number of text blocks on a page.
MaxBlocks == 3

\* Largest number of pages of a document.
MaxPages == 2

\* Largest number of text blocks on a page of a document.
MaxPageBlocks == 2

----------------------------------------------------------------------------
\* Exact rational arithmetic for the float ratios.

Max(a, b) == IF a >= b THEN a ELSE b

Min(a, b) == IF a <= b THEN a ELSE b

Abs(a) == IF a < 0 THEN -a ELSE a

RECURSIVE Gcd(_, _)
Gcd(a, b) == IF b = 0 THEN a ELSE Gcd(b, a % b)

\* What stands for the exception a Python division by zero raises.
ZeroDivisionError == <<0, 0>>

\* The rational n / d in lowest terms with a positive denominator, or
\* ZeroDivisionError when d = 0.
Rat(n, d) ==
    LET g == Gcd(Abs(n), Abs(d))
        s == IF d < 0 THEN -1 ELSE 1
    IN  IF d = 0 THEN ZeroDivisionError
        ELSE <<(s * n) \div g, (s * d) \div g>>

RatGE(r, t) == r[1] * t[2] >= t[1] * r[2]

RatGT(r, t) == r[1] * t[2] > t[1] * r[2]

RatAdd(r, t) == Rat(r[1] * t[2] + t[1] * r[2], r[2] * t[2])

----------------------------------------------------------------------------
\* BoundingBox (src/data_structures.py).

Width(b) == b.x1 - b.x0

Height(b) == b.y1 - b.y0

Area(b) == Width(b) * Height(b)

NoBox == [x0 |-> 0, y0 |-> 0, x1 |-> 0, y1 |-> 0, none |-> TRUE]

\* Intersection with the left and top edges of a for the larger ones.
IntersectionFromFirstCorner(a, b) ==
    LET x1 == Min(a.x1, b.x1)
        y1 == Min(a.y1, b.y1)
    IN  IF a.x0 < x1 /\ a.y0 < y1
        THEN [x0 |-> a.x0, y0 |-> a.y0, x1 |-> x1, y1 |-> y1]
        ELSE NoBox

\* BoundingBox.intersection: the overlap region, or None (NoBox).
Intersection(a, b) ==
    LET x0 == Max(a.x0, b.x0)
        y0 == Max(a.y0, b.y0)
        x1 == Min(a.x1, b.x1)
        y1 == Min(a.y1, b.y1)
    IN  IF x0 < x1 /\ y0 < y1
        THEN [x0 |-> x0, y0 |-> y0, x1 |-> x1, y1 |-> y1]
        ELSE NoBox

IntersectionArea(a, b) ==
    LET i == Intersection(a, b)
    IN  IF i = NoBox THEN 0 ELSE Area(i)

\* OverlapRatio without the test for an area of zero.
OverlapRatioUnguarded(a, b) == Rat(IntersectionArea(a, b), Area(a))

\* BoundingBox.overlap_ratio: the fraction of a covered by b.
OverlapRatio(a, b) ==
    IF Area(a) = 0 THEN <<0, 1>> ELSE Rat(IntersectionArea(a, b), Area(a))

----------------------------------------------------------------------------
\* PageOCRResult.remove_duplicate_blocks (src/data_structures.py).

\* FirstRemover with overlap_ratio > overlap_threshold for >=.
RECURSIVE FirstRemoverStrict(_, _, _, _, _)
FirstRemoverStrict(blocks, i, j, removed, t) ==
    IF j > Len(blocks) THEN 0
    ELSE IF i = j \/ j \in removed THEN FirstRemoverStrict(blocks, i, j + 1, removed, t)
    ELSE IF /\ RatGT(OverlapRatio(blocks[i].bbox, blocks[j].bbox), t)
            /\ Area(blocks[i].bbox) < Area(blocks[j].bbox)
         THEN j
         ELSE FirstRemoverStrict(blocks, i, j + 1, removed, t)

\* FirstRemover with <= in place of < between the areas.
RECURSIVE FirstRemoverNotSmaller(_, _, _, _, _)
FirstRemoverNotSmaller(blocks, i, j, removed, t) ==
    IF j > Len(blocks) THEN 0
    ELSE IF i = j \/ j \in removed
         THEN FirstRemoverNotSmaller(blocks, i, j + 1, removed, t)
    ELSE IF /\ RatGE(OverlapRatio(blocks[i].bbox, blocks[j].bbox), t)
            /\ Area(blocks[i].bbox) <= Area(blocks[j].bbox)
         THEN j
         ELSE FirstRemoverNotSmaller(blocks, i, j + 1, removed, t)

\* FirstRemover that also takes a block already marked for removal.
RECURSIVE FirstRemoverAmongAll(_, _, _, _, _)
FirstRemoverAmongAll(blocks, i, j, removed, t) ==
    IF j > Len(blocks) THEN 0
    ELSE IF i = j THEN FirstRemoverAmongAll(blocks, i, j + 1, removed, t)
    ELSE IF /\ RatGE(OverlapRatio(blocks[i].bbox, blocks[j].bbox), t)
            /\ Area(blocks[i].bbox) < Area(blocks[j].bbox)
         THEN j
         ELSE FirstRemoverAmongAll(blocks, i, j + 1, removed, t)

\* The inner loop over j: the index of the first block that removes block i,
\* or 0 when the loop ends without one.
RECURSIVE FirstRemover(_, _, _, _, _)
FirstRemover(blocks, i, j, removed, t) ==
    IF j > Len(blocks) THEN 0
    ELSE IF i = j \/ j \in removed THEN FirstRemover(blocks, i, j + 1, removed, t)
    ELSE IF /\ RatGE(OverlapRatio(blocks[i].bbox, blocks[j].bbox), t)
            /\ Area(blocks[i].bbox) < Area(blocks[j].bbox)
         THEN j
         ELSE FirstRemover(blocks, i, j + 1, removed, t)

\* BlocksToRemove with the pass ended at the first block it marks.
RECURSIVE BlocksToRemoveOnce(_, _, _, _)
BlocksToRemoveOnce(blocks, i, removed, t) ==
    IF i > Len(blocks) THEN removed
    ELSE IF FirstRemover(blocks, i, 1, removed, t) # 0 THEN removed \cup {i}
    ELSE BlocksToRemoveOnce(blocks, i + 1, removed, t)

\* The outer loop over i: blocks_to_remove after the pass, started at index i
\* with the set collected so far.
RECURSIVE BlocksToRemove(_, _, _, _)
BlocksToRemove(blocks, i, removed, t) ==
    IF i > Len(blocks) THEN removed
    ELSE IF i \in removed THEN BlocksToRemove(blocks, i + 1, removed, t)
    ELSE IF FirstRemover(blocks, i, 1, removed, t) # 0
         THEN BlocksToRemove(blocks, i + 1, removed \cup {i}, t)
         ELSE BlocksToRemove(blocks, i + 1, removed, t)

\* The list comprehension that keeps the blocks whose index is not in removed.
RECURSIVE KeepUnremoved(_, _, _)
KeepUnremoved(blocks, i, removed) ==
    IF i > Len(blocks) THEN << >>
    ELSE IF i \in removed THEN KeepUnremoved(blocks, i + 1, removed)
    ELSE <<blocks[i]>> \o KeepUnremoved(blocks, i + 1, removed)

\* text_blocks after remove_duplicate_blocks(t).
DedupBlocks(blocks, t) ==
    IF Len(blocks) <= 1 THEN blocks
    ELSE KeepUnremoved(blocks, 1, BlocksToRemove(blocks, 1, {}, t))

\* DedupCount returning the number of blocks kept.
DedupCountKept(blocks, t) ==
    IF Len(blocks) <= 1 THEN 0 ELSE Len(DedupBlocks(blocks, t))

\* The value remove_duplicate_blocks(t) returns.
DedupCount(blocks, t) ==
    IF Len(blocks) <= 1 THEN 0
    ELSE Len(blocks) - Len(DedupBlocks(blocks, t))

----------------------------------------------------------------------------
\* Stable sorting, as list.sort(key=...) does it.

\* pairs is a sequence of <<key, item>> sorted by key; p goes after every pair
\* whose key is not greater than its own.
InsertByKey(pairs, p) ==
    LET n == Cardinality({i \in 1..Len(pairs) : pairs[i][1] <= p[1]})
    IN  SubSeq(pairs, 1, n) \o <<p>> \o SubSeq(pairs, n + 1, Len(pairs))

RECURSIVE SortPairs(_, _)
SortPairs(pairs, n) ==
    IF n = 0 THEN << >> ELSE InsertByKey(SortPairs(pairs, n - 1), pairs[n])

\* items sorted by ascending keys[i], equal keys in their original order.
StableSort(items, keys) ==
    LET pairs  == [i \in 1..Len(items) |-> <<keys[i], items[i]>>]
        sorted == SortPairs(pairs, Len(pairs))
    IN  [i \in 1..Len(items) |-> sorted[i][2]]

RECURSIVE Flatten(_)
Flatten(groups) ==
    IF groups = << >> THEN << >> ELSE Head(groups) \o Flatten(Tail(groups))

----------------------------------------------------------------------------
\* Grouping into columns and rows (src/text_block_sorter.py).

\* The default of the threshold parameter of is_horizontal_overlap and
\* is_vertical_overlap, 0.5.
GroupThreshold == <<1, 2>>

\* get_bbox_props: center x and center y, doubled.
CenterX2(b) == b.x0 + b.x1

CenterY2(b) == b.y0 + b.y1

\* ReachesShare with > in place of >=.
ReachesShareStrictly(overlap, extent, t) == overlap * t[2] > extent * t[1]

\* overlap >= w * threshold, for the rational threshold.
ReachesShare(overlap, extent, t) == overlap * t[2] >= extent * t[1]

\* IsHorizontalOverlap that also asks for an overlap above 0.
IsHorizontalOverlapPositive(b1, b2) ==
    LET overlap == Max(0, Min(b1.x1, b2.x1) - Max(b1.x0, b2.x0))
    IN  /\ overlap > 0
        /\ \/ ReachesShare(overlap, Width(b1), GroupThreshold)
           \/ ReachesShare(overlap, Width(b2), GroupThreshold)

IsHorizontalOverlap(b1, b2) ==
    LET overlap == Max(0, Min(b1.x1, b2.x1) - Max(b1.x0, b2.x0))
    IN  \/ ReachesShare(overlap, Width(b1), GroupThreshold)
        \/ ReachesShare(overlap, Width(b2), GroupThreshold)

IsVerticalOverlap(b1, b2) ==
    LET overlap == Max(0, Min(b1.y1, b2.y1) - Max(b1.y0, b2.y0))
    IN  \/ ReachesShare(overlap, Height(b1), GroupThreshold)
        \/ ReachesShare(overlap, Height(b2), GroupThreshold)

\* FirstColumn that looks at every member of a column.
FirstColumnAnyMember(columns, block) ==
    LET hits == {c \in 1..Len(columns) :
                    \E m \in 1..Len(columns[c]) :
                        IsHorizontalOverlap(block.bbox, columns[c][m].bbox)}
    IN  IF hits = {} THEN 0 ELSE CHOOSE c \in hits : \A d \in hits : c <= d

\* The loop "for column in columns": the index of the first column whose
\* first member overlaps block horizontally, or 0.
FirstColumn(columns, block) ==
    LET hits == {c \in 1..Len(columns) :
                    IsHorizontalOverlap(block.bbox, columns[c][1].bbox)}
    IN  IF hits = {} THEN 0 ELSE CHOOSE c \in hits : \A d \in hits : c <= d

FirstRow(rows, block) ==
    LET hits == {r \in 1..Len(rows) :
                    IsVerticalOverlap(block.bbox, rows[r][1].bbox)}
    IN  IF hits = {} THEN 0 ELSE CHOOSE r \in hits : \A d \in hits : r <= d

\* The loop "for block in text_blocks" of sort_vertical_text_blocks: the
\* columns after the first n blocks.
RECURSIVE Columns(_, _)
Columns(blocks, n) ==
    IF n = 0 THEN << >>
    ELSE LET columns == Columns(blocks, n - 1)
             c       == FirstColumn(columns, blocks[n])
         IN  IF c # 0
             THEN [columns EXCEPT ![c] = Append(@, blocks[n])]
             ELSE Append(columns, <<blocks[n]>>)

RECURSIVE Rows(_, _)
Rows(blocks, n) ==
    IF n = 0 THEN << >>
    ELSE LET rows == Rows(blocks, n - 1)
             r    == FirstRow(rows, blocks[n])
         IN  IF r # 0
             THEN [rows EXCEPT ![r] = Append(@, blocks[n])]
             ELSE Append(rows, <<blocks[n]>>)

\* SortedColumns without the minus sign in the key of the columns.
SortedColumnsLeftFirst(blocks) ==
    LET columns == Columns(blocks, Len(blocks))
        inner   == [c \in 1..Len(columns) |->
                      StableSort(columns[c],
                                 [i \in 1..Len(columns[c]) |-> columns[c][i].bbox.y0])]
    IN  StableSort(inner, [c \in 1..Len(inner) |-> CenterX2(inner[c][1].bbox)])

\* SortedColumns with the key of a column taken from its founder.
SortedColumnsByFounder(blocks) ==
    LET columns == Columns(blocks, Len(blocks))
        inner   == [c \in 1..Len(columns) |->
                      StableSort(columns[c],
                                 [i \in 1..Len(columns[c]) |-> columns[c][i].bbox.y0])]
    IN  StableSort(inner, [c \in 1..Len(inner) |-> -CenterX2(columns[c][1].bbox)])

\* The columns, each sorted by top y, then ordered by descending center x of
\* their first member.
SortedColumns(blocks) ==
    LET columns == Columns(blocks, Len(blocks))
        inner   == [c \in 1..Len(columns) |->
                      StableSort(columns[c],
                                 [i \in 1..Len(columns[c]) |-> columns[c][i].bbox.y0])]
    IN  StableSort(inner, [c \in 1..Len(inner) |-> -CenterX2(inner[c][1].bbox)])

\* SortedRows with the key of the rows negated, as the key of the columns is.
SortedRowsBottomFirst(blocks) ==
    LET rows  == Rows(blocks, Len(blocks))
        inner == [r \in 1..Len(rows) |->
                    StableSort(rows[r],
                               [i \in 1..Len(rows[r]) |-> rows[r][i].bbox.x0])]
    IN  StableSort(inner, [r \in 1..Len(inner) |-> -CenterY2(inner[r][1].bbox)])

\* The rows, each sorted by left x, then ordered by ascending center y of
\* their first member.
SortedRows(blocks) ==
    LET rows  == Rows(blocks, Len(blocks))
        inner == [r \in 1..Len(rows) |->
                    StableSort(rows[r],
                               [i \in 1..Len(rows[r]) |-> rows[r][i].bbox.x0])]
    IN  StableSort(inner, [r \in 1..Len(inner) |-> CenterY2(inner[r][1].bbox)])

SortVerticalTextBlocks(blocks) ==
    IF blocks = << >> THEN blocks ELSE Flatten(SortedColumns(blocks))

SortHorizontalTextBlocks(blocks) ==
    IF blocks = << >> THEN blocks ELSE Flatten(SortedRows(blocks))

----------------------------------------------------------------------------
\* Merging of overlapping blocks (src/text_block_sorter.py).

\* The default of overlap_threshold of merge_overlapping_text_blocks, 0.5.
MergeThreshold == <<1, 2>>

\* calculate_overlap_ratio: the overlap area over the smaller of the two areas.
CalculateOverlapRatio(b1, b2) ==
    LET left    == Max(b1.x0, b2.x0)
        top     == Max(b1.y0, b2.y0)
        right   == Min(b1.x1, b2.x1)
        bottom  == Min(b1.y1, b2.y1)
        smaller == Min(Area(b1), Area(b2))
    IN  IF left >= right \/ top >= bottom THEN <<0, 1>>
        ELSE IF smaller > 0 THEN Rat((right - left) * (bottom - top), smaller)
        ELSE <<0, 1>>

\* MergeIndices without the test of the direction.
MergeIndicesAnyDirection(blocks, i, used) ==
    {i} \cup {j \in 1..Len(blocks) :
                /\ j > i
                /\ j \notin used
                /\ RatGE(CalculateOverlapRatio(blocks[i].bbox, blocks[j].bbox),
                         MergeThreshold)}

\* MergeIndices that also takes the blocks that overlap a block which
\* overlaps the anchor.
MergeIndicesTransitive(blocks, i, used) ==
    LET later(S) == {j \in 1..Len(blocks) :
                        /\ j > i
                        /\ j \notin used
                        /\ blocks[i].direction = blocks[j].direction
                        /\ \E m \in S :
                              RatGE(CalculateOverlapRatio(blocks[m].bbox,
                                                          blocks[j].bbox),
                                    MergeThreshold)}
    IN  {i} \cup later({i}) \cup later(later({i}))

\* The inner loop over j for the anchor at index i: merge_indices, the anchor
\* and the later unused blocks of its direction that overlap it enough.
MergeIndices(blocks, i, used) ==
    {i} \cup {j \in 1..Len(blocks) :
                /\ j > i
                /\ j \notin used
                /\ blocks[i].direction = blocks[j].direction
                /\ RatGE(CalculateOverlapRatio(blocks[i].bbox, blocks[j].bbox),
                         MergeThreshold)}

\* MergeClusters without the update of used_indices.
RECURSIVE MergeClustersNothingUsed(_, _, _)
MergeClustersNothingUsed(blocks, i, used) ==
    IF i > Len(blocks) THEN << >>
    ELSE IF i \in used THEN MergeClustersNothingUsed(blocks, i + 1, used)
    ELSE LET indices == MergeIndices(blocks, i, used)
         IN  <<indices>> \o MergeClustersNothingUsed(blocks, i + 1, used)

\* The outer loop over i: the merge_indices of every anchor, in anchor order.
RECURSIVE MergeClusters(_, _, _)
MergeClusters(blocks, i, used) ==
    IF i > Len(blocks) THEN << >>
    ELSE IF i \in used THEN MergeClusters(blocks, i + 1, used)
    ELSE LET indices == MergeIndices(blocks, i, used)
         IN  <<indices>> \o MergeClusters(blocks, i + 1, used \cup indices)

\* The members of a set of indices, in list order (merge_candidates).
RECURSIVE Members(_, _, _)
Members(blocks, indices, i) ==
    IF i > Len(blocks) THEN << >>
    ELSE IF i \in indices THEN <<blocks[i]>> \o Members(blocks, indices, i + 1)
    ELSE Members(blocks, indices, i + 1)

\* max(seq, key=...): the first element whose key no other exceeds.
FirstMaxConfidence(blocks) ==
    LET best == {i \in 1..Len(blocks) :
                    \A j \in 1..Len(blocks) :
                        RatGE(blocks[i].confidence, blocks[j].confidence)}
    IN  blocks[CHOOSE i \in best : \A j \in best : i <= j]

FirstLongestText(blocks) ==
    LET best == {i \in 1..Len(blocks) :
                    \A j \in 1..Len(blocks) : Len(blocks[i].text) >= Len(blocks[j].text)}
    IN  blocks[CHOOSE i \in best : \A j \in best : i <= j]

RECURSIVE SumConfidence(_, _)
SumConfidence(blocks, n) ==
    IF n = 0 THEN <<0, 1>>
    ELSE RatAdd(SumConfidence(blocks, n - 1), blocks[n].confidence)

MinOf(S) == CHOOSE m \in S : \A n \in S : m <= n

MaxOf(S) == CHOOSE m \in S : \A n \in S : m >= n

\* MergeTextBlocks with the bbox of the base block for the union rectangle.
MergeTextBlocksBaseBox(cands, oid) ==
    IF Len(cands) = 1 THEN cands[1]
    ELSE LET base == FirstMaxConfidence(cands)
             sum  == SumConfidence(cands, Len(cands))
         IN  [oid        |-> oid,
              text       |-> FirstLongestText(cands).text,
              bbox       |-> base.bbox,
              confidence |-> Rat(sum[1], sum[2] * Len(cands)),
              direction  |-> base.direction,
              block_id   |-> base.block_id]

\* MergeTextBlocks with the confidence of the base block for the mean.
MergeTextBlocksBaseConfidence(cands, oid) ==
    IF Len(cands) = 1 THEN cands[1]
    ELSE LET base == FirstMaxConfidence(cands)
             idx  == 1..Len(cands)
         IN  [oid        |-> oid,
              text       |-> FirstLongestText(cands).text,
              bbox       |-> [x0 |-> MinOf({cands[i].bbox.x0 : i \in idx}),
                              y0 |-> MinOf({cands[i].bbox.y0 : i \in idx}),
                              x1 |-> MaxOf({cands[i].bbox.x1 : i \in idx}),
                              y1 |-> MaxOf({cands[i].bbox.y1 : i \in idx})],
              confidence |-> base.confidence,
              direction  |-> base.direction,
              block_id   |-> base.block_id]

\* merge_text_blocks: the block built from the candidates; oid is the
\* identity of the new object.
MergeTextBlocks(cands, oid) ==
    IF Len(cands) = 1 THEN cands[1]
    ELSE LET base == FirstMaxConfidence(cands)
             idx  == 1..Len(cands)
             sum  == SumConfidence(cands, Len(cands))
         IN  [oid        |-> oid,
              text       |-> FirstLongestText(cands).text,
              bbox       |-> [x0 |-> MinOf({cands[i].bbox.x0 : i \in idx}),
                              y0 |-> MinOf({cands[i].bbox.y0 : i \in idx}),
                              x1 |-> MaxOf({cands[i].bbox.x1 : i \in idx}),
                              y1 |-> MaxOf({cands[i].bbox.y1 : i \in idx})],
              confidence |-> Rat(sum[1], sum[2] * Len(cands)),
              direction  |-> base.direction,
              block_id   |-> base.block_id]

\* An identity no block of the list has: new objects get FreshOid + 1, ...
FreshOid(blocks) == MaxOf({0} \cup {blocks[i].oid : i \in 1..Len(blocks)})

\* MergeOverlappingTextBlocks with a second pass over the output of the
\* first.
MergeOverlappingTextBlocksTwice(blocks) ==
    LET Pass(bs) ==
            IF Len(bs) <= 1 THEN bs
            ELSE LET clusters == MergeClusters(bs, 1, {})
                 IN  [k \in 1..Len(clusters) |->
                        MergeTextBlocks(Members(bs, clusters[k], 1),
                                        FreshOid(bs) + k)]
    IN  Pass(Pass(blocks))

\* merge_overlapping_text_blocks: one block per cluster, in anchor order.
MergeOverlappingTextBlocks(blocks) ==
    IF Len(blocks) <= 1 THEN blocks
    ELSE LET clusters == MergeClusters(blocks, 1, {})
         IN  [k \in 1..Len(clusters) |->
                MergeTextBlocks(Members(blocks, clusters[k], 1), FreshOid(blocks) + k)]

----------------------------------------------------------------------------
\* The page pipeline (src/text_block_sorter.py).

WithDirection(blocks, d) == SelectSeq(blocks, LAMBDA b : b.direction = d)

\* calculate_group_bounding_box as <<min_x, min_y, max_x, max_y>>.
CalculateGroupBoundingBox(blocks) ==
    IF blocks = << >> THEN <<0, 0, 0, 0>>
    ELSE LET idx == 1..Len(blocks)
         IN  <<MinOf({blocks[i].bbox.x0 : i \in idx}),
               MinOf({blocks[i].bbox.y0 : i \in idx}),
               MaxOf({blocks[i].bbox.x1 : i \in idx}),
               MaxOf({blocks[i].bbox.y1 : i \in idx})>>

\* FinalSortedBlocks with the vertical blocks first whatever the tops.
FinalSortedBlocksVerticalFirst(blocks) ==
    LET merged     == MergeOverlappingTextBlocks(blocks)
        vertical   == WithDirection(merged, "vertical")
        horizontal == WithDirection(merged, "horizontal")
    IN  SortVerticalTextBlocks(vertical) \o SortHorizontalTextBlocks(horizontal)

\* FinalSortedBlocks with < in place of <= between the tops.
FinalSortedBlocksHorizontalOnTie(blocks) ==
    LET merged     == MergeOverlappingTextBlocks(blocks)
        vertical   == WithDirection(merged, "vertical")
        horizontal == WithDirection(merged, "horizontal")
        sorted_v   == SortVerticalTextBlocks(vertical)
        sorted_h   == SortHorizontalTextBlocks(horizontal)
    IN  IF vertical # << >> /\ horizontal # << >>
        THEN IF CalculateGroupBoundingBox(vertical)[2]
                    < CalculateGroupBoundingBox(horizontal)[2]
             THEN sorted_v \o sorted_h
             ELSE sorted_h \o sorted_v
        ELSE IF vertical # << >> THEN sorted_v
        ELSE IF horizontal # << >> THEN sorted_h
        ELSE << >>

\* final_sorted_blocks of sort_text_blocks_by_reading_order before the ids are
\* assigned, for a page that has blocks.
FinalSortedBlocks(blocks) ==
    LET merged     == MergeOverlappingTextBlocks(blocks)
        vertical   == WithDirection(merged, "vertical")
        horizontal == WithDirection(merged, "horizontal")
        sorted_v   == SortVerticalTextBlocks(vertical)
        sorted_h   == SortHorizontalTextBlocks(horizontal)
    IN  IF vertical # << >> /\ horizontal # << >>
        THEN IF CalculateGroupBoundingBox(vertical)[2]
                    <= CalculateGroupBoundingBox(horizontal)[2]
             THEN sorted_v \o sorted_h
             ELSE sorted_h \o sorted_v
        ELSE IF vertical # << >> THEN sorted_v
        ELSE IF horizontal # << >> THEN sorted_h
        ELSE << >>

\* AssignIds with block_id = i for block_id = i + 1.
AssignIdsFromZero(blocks, final) ==
    [i \in 1..Len(blocks) |->
        IF \E k \in 1..Len(final) : final[k].oid = blocks[i].oid
        THEN [blocks[i] EXCEPT
                !.block_id = MaxOf({k \in 1..Len(final) : final[k].oid = blocks[i].oid}) - 1]
        ELSE blocks[i]]

\* The loop "block.block_id = i + 1" as seen through a list of objects: every
\* object of the list that is in final gets its position in final as id.
AssignIds(blocks, final) ==
    [i \in 1..Len(blocks) |->
        IF \E k \in 1..Len(final) : final[k].oid = blocks[i].oid
        THEN [blocks[i] EXCEPT
                !.block_id = MaxOf({k \in 1..Len(final) : final[k].oid = blocks[i].oid})]
        ELSE blocks[i]]

\* text_blocks of the page that sort_text_blocks_by_reading_order returns.
SortedPageBlocks(blocks) ==
    IF blocks = << >> THEN blocks
    ELSE LET final == FinalSortedBlocks(blocks) IN AssignIds(final, final)

----------------------------------------------------------------------------
\* The document: a page is a record
\*   [page_number, text_blocks, page_width, page_height, success, error,
\*    processing_time].

\* SortedPage without the processing time: the new page has the default 0.0.
SortedPageDefaultTime(page) ==
    IF page.text_blocks = << >> THEN page
    ELSE [page_number     |-> page.page_number,
          text_blocks     |-> SortedPageBlocks(page.text_blocks),
          page_width      |-> page.page_width,
          page_height     |-> page.page_height,
          success         |-> page.success,
          error           |-> page.error,
          processing_time |-> <<0, 1>>]

\* sort_text_blocks_by_reading_order: the page it returns, which is the page
\* passed in when that has no blocks.
SortedPage(page) ==
    IF page.text_blocks = << >> THEN page
    ELSE [page_number     |-> page.page_number,
          text_blocks     |-> SortedPageBlocks(page.text_blocks),
          page_width      |-> page.page_width,
          page_height     |-> page.page_height,
          success         |-> page.success,
          error           |-> page.error,
          processing_time |-> page.processing_time]

\* SortPageAt with block ids that go on from the last id of the page before.
SortPageAtContinuingIds(doc, i) ==
    LET page   == SortedPage(doc[i])
        offset == IF i = 1 THEN 0 ELSE Len(doc[i - 1].text_blocks)
    IN  [doc EXCEPT ![i] =
            [page EXCEPT !.text_blocks =
                [k \in 1..Len(page.text_blocks) |->
                    [page.text_blocks[k] EXCEPT !.block_id = offset + k]]]]

\* The body of the loop of sort_document_text_blocks for the index i.
SortPageAt(doc, i) == [doc EXCEPT ![i] = SortedPage(doc[i])]

\* SortDocumentFrom that gives up at the first page without success.
RECURSIVE SortDocumentUntilFailure(_, _)
SortDocumentUntilFailure(doc, i) ==
    IF i > Len(doc) \/ ~doc[i].success THEN doc
    ELSE SortDocumentUntilFailure(SortPageAt(doc, i), i + 1)

\* The loop of sort_document_text_blocks from the index i on.
RECURSIVE SortDocumentFrom(_, _)
SortDocumentFrom(doc, i) ==
    IF i > Len(doc) THEN doc
    ELSE SortDocumentFrom(SortPageAt(doc, i), i + 1)

----------------------------------------------------------------------------
\* Pages the upstream OCR step can hand over.

\* The coordinates of the grid the rectangles are drawn on: areas 1, 2 and 4,
\* overlap ratios 0, 1/4, 1/2 and 1.
Coords == {0, 1, 2}

\* The rectangles with x0 < x1 and y0 < y1 on the grid.
Boxes ==
    {b \in [x0 : Coords, y0 : Coords, x1 : Coords, y1 : Coords] :
        b.x0 < b.x1 /\ b.y0 < b.y1}

\* Rectangles of no width, of no height, of neither, and one with x1 < x0.
DegenerateBoxes ==
    {[x0 |-> 0, y0 |-> 0, x1 |-> 0, y1 |-> 2],
     [x0 |-> 0, y0 |-> 1, x1 |-> 2, y1 |-> 1],
     [x0 |-> 1, y0 |-> 1, x1 |-> 1, y1 |-> 1],
     [x0 |-> 2, y0 |-> 0, x1 |-> 0, y1 |-> 2]}

\* Unit-width rectangles at three left edges, for rows.
RowBoxes ==
    {b \in [x0 : Coords, y0 : Coords, x1 : {c + 1 : c \in Coords}, y1 : Coords] :
        b.x1 = b.x0 + 1 /\ b.y0 < b.y1}

\* Unit-height rectangles at three top edges, for columns.
ColumnBoxes ==
    {b \in [x0 : Coords, y0 : Coords, x1 : Coords, y1 : {c + 1 : c \in Coords}] :
        b.y1 = b.y0 + 1 /\ b.x0 < b.x1}

\* What the OCR step reports for one block: well-formed detections.
Detections ==
    [text : {<<"a">>}, bbox : Boxes, confidence : {<<9, 10>>},
     direction : {"horizontal", "vertical"}]

\* Detections that also carry a direction that is neither "horizontal" nor
\* "vertical", or a confidence above 1.
AnyDetections ==
    Detections
    \cup [text : {<<"a">>}, bbox : Boxes, confidence : {<<9, 10>>},
          direction : {"diagonal"}]
    \cup [text : {<<"a">>}, bbox : Boxes, confidence : {<<3, 2>>},
          direction : {"horizontal"}]

\* A box that reaches past the grid: it covers half of the box (0, 0, 1, 2)
\* and nothing of the unit square at the origin, which that box contains.
WideBox == [x0 |-> 0, y0 |-> 1, x1 |-> 3, y1 |-> 2]

DedupDetections ==
    [text : {<<"a">>}, bbox : Boxes \cup DegenerateBoxes \cup {WideBox},
     confidence : {<<9, 10>>}, direction : {"horizontal"}]

RowDetections ==
    [text : {<<"a">>}, bbox : RowBoxes, confidence : {<<9, 10>>},
     direction : {"horizontal"}]

ColumnDetections ==
    [text : {<<"a">>}, bbox : ColumnBoxes, confidence : {<<9, 10>>},
     direction : {"vertical"}]

\* The rectangles with their top-left corner at the origin: any two overlap
\* by half or all of the smaller one.
CornerBoxes == {b \in Boxes : b.x0 = 0 /\ b.y0 = 0}

\* Detections that differ in text length and confidence.
FieldDetections ==
    [text : {<<"a">>, <<"b", "c">>}, bbox : CornerBoxes,
     confidence : {<<9, 10>>, <<1, 2>>}, direction : {"horizontal"}]

\* Detections of the pages of a document: a horizontal one, which merges
\* with a second one like it, and a vertical one that starts higher up, which
\* the pipeline puts before a horizontal one detected earlier.
DocumentDetections ==
    {[text |-> <<"a">>, bbox |-> [x0 |-> 0, y0 |-> 1, x1 |-> 2, y1 |-> 2],
      confidence |-> <<9, 10>>, direction |-> "horizontal"],
     [text |-> <<"a">>, bbox |-> [x0 |-> 0, y0 |-> 0, x1 |-> 1, y1 |-> 1],
      confidence |-> <<9, 10>>, direction |-> "vertical"]}

\* The lists of detections parse_ocr_results can return for a page.
DetectionLists == UNION {[1..n -> DocumentDetections] : n \in 0..MaxPageBlocks}

\* Every BoundingBox with coordinates on the grid, whatever their order.
GridBoxes == [x0 : Coords, y0 : Coords, x1 : Coords, y1 : Coords]

\* A box with both pairs of edges the wrong way round: width and height are
\* negative and their product is positive.
InvertedBox == [x0 |-> 2, y0 |-> 2, x1 |-> 0, y1 |-> 0]

\* Proper boxes that contain one another, and the boxes without extent that
\* lie in them.
DegenerateDetections ==
    [text : {<<"a">>},
     bbox : {b \in CornerBoxes : b.x1 = b.y1 \/ b.y1 = 1}
               \cup DegenerateBoxes \cup {InvertedBox},
     confidence : {<<9, 10>>}, direction : {"horizontal"}]

\* The 2 x 2 square moved by one in both directions: its projections overlap
\* those of the 2 x 2 square at the origin by 1, half of either extent.
ShiftedBox == [x0 |-> 1, y0 |-> 1, x1 |-> 3, y1 |-> 3]

\* Blocks for the two group sorters, which do not read the direction: every
\* proper box of the grid, the shifted square and the boxes without extent.
GroupDetections ==
    [text : {<<"a">>},
     bbox : Boxes \cup DegenerateBoxes \cup {InvertedBox, ShiftedBox},
     confidence : {<<9, 10>>}, direction : {"horizontal"}]

\* Boxes for the order of columns: a narrow one on the right, a wide one that
\* starts higher and reaches it, and a narrow one left of the first whose
\* center lies between the centers of the two; and the same three with x and
\* y exchanged, for rows.
KeyBoxes ==
    {[x0 |-> 3, y0 |-> 1, x1 |-> 4, y1 |-> 2],
     [x0 |-> 0, y0 |-> 0, x1 |-> 4, y1 |-> 1],
     [x0 |-> 2, y0 |-> 0, x1 |-> 3, y1 |-> 1],
     [x0 |-> 1, y0 |-> 3, x1 |-> 2, y1 |-> 4],
     [x0 |-> 0, y0 |-> 0, x1 |-> 1, y1 |-> 4],
     [x0 |-> 0, y0 |-> 2, x1 |-> 1, y1 |-> 3]}

KeyDetections ==
    [text : {<<"a">>},
     bbox : KeyBoxes \cup CornerBoxes \cup DegenerateBoxes,
     confidence : {<<9, 10>>}, direction : {"horizontal"}]

----------------------------------------------------------------------------
\* Operations.

Init ==
    /\ text_blocks = << >>
    /\ op = "init"
    /\ threshold = <<0, 1>>
    /\ input_blocks = << >>
    /\ result_blocks = << >>
    /\ removed_count = 0
    /\ pages = << >>
    /\ input_pages = << >>
    /\ page_order = << >>
    /\ measured = [method |-> "none"]

\* Two blocks with any two boxes of the grid, for the methods of BoundingBox
\* that take a second box.
InitGeometry ==
    /\ \E a \in GridBoxes, b \in GridBoxes :
          text_blocks =
              <<[oid |-> 1, text |-> <<"a">>, bbox |-> a,
                 confidence |-> <<9, 10>>, direction |-> "horizontal",
                 block_id |-> 1],
                [oid |-> 2, text |-> <<"a">>, bbox |-> b,
                 confidence |-> <<9, 10>>, direction |-> "horizontal",
                 block_id |-> 2]>>
    /\ op = "init"
    /\ threshold = <<0, 1>>
    /\ input_blocks = << >>
    /\ result_blocks = << >>
    /\ removed_count = 0
    /\ pages = << >>
    /\ input_pages = << >>
    /\ page_order = << >>
    /\ measured = [method |-> "none"]

\* process_pdf builds the page: a TextBlock per detection, block_id the
\* position in the list (src/main.py).
AppendTextBlock(detections, max) ==
    /\ op \in {"init", "append"}
    /\ Len(text_blocks) < max
    /\ \E d \in detections :
          text_blocks' = Append(text_blocks,
              [oid        |-> Len(text_blocks) + 1,
               text       |-> d.text,
               bbox       |-> d.bbox,
               confidence |-> d.confidence,
               direction  |-> d.direction,
               block_id   |-> Len(text_blocks) + 1])
    /\ op' = "append"
    /\ UNCHANGED <<threshold, input_blocks, result_blocks, removed_count>>
    /\ UNCHANGED <<document_vars, measured>>

\* The default of overlap_threshold of remove_duplicate_blocks, 0.6.
DedupThreshold == <<6, 10>>

\* The thresholds a caller passes: the default, one that overlap ratios on the
\* grid equal (1/2), one every ratio reaches (0) and one no ratio reaches (3/2).
Thresholds == {<<0, 1>>, <<1, 2>>, DedupThreshold, <<3, 2>>}

\* page.remove_duplicate_blocks(t)
RemoveDuplicateBlocks ==
    \E t \in Thresholds :
        /\ text_blocks' = DedupBlocks(text_blocks, t)
        /\ removed_count' = DedupCount(text_blocks, t)
        /\ threshold' = t
        /\ input_blocks' = text_blocks
        /\ op' = "remove_duplicate_blocks"
        /\ UNCHANGED result_blocks
        /\ UNCHANGED <<document_vars, measured>>

\* merge_overlapping_text_blocks(page.text_blocks)
CallMergeOverlappingTextBlocks ==
    /\ result_blocks' = MergeOverlappingTextBlocks(text_blocks)
    /\ input_blocks' = text_blocks
    /\ op' = "merge_overlapping_text_blocks"
    /\ UNCHANGED <<text_blocks, threshold, removed_count>>
    /\ UNCHANGED <<document_vars, measured>>

\* sort_horizontal_text_blocks(page.text_blocks)
CallSortHorizontalTextBlocks ==
    /\ result_blocks' = SortHorizontalTextBlocks(text_blocks)
    /\ input_blocks' = text_blocks
    /\ op' = "sort_horizontal_text_blocks"
    /\ UNCHANGED <<text_blocks, threshold, removed_count>>
    /\ UNCHANGED <<document_vars, measured>>

\* sort_vertical_text_blocks(page.text_blocks)
CallSortVerticalTextBlocks ==
    /\ result_blocks' = SortVerticalTextBlocks(text_blocks)
    /\ input_blocks' = text_blocks
    /\ op' = "sort_vertical_text_blocks"
    /\ UNCHANGED <<text_blocks, threshold, removed_count>>
    /\ UNCHANGED <<document_vars, measured>>

\* sort_text_blocks_by_reading_order(page): the returned page's blocks, and
\* the ids written into the blocks of the page passed in.
SortTextBlocksByReadingOrder ==
    /\ result_blocks' = SortedPageBlocks(text_blocks)
    /\ text_blocks' = IF text_blocks = << >> THEN text_blocks
                      ELSE AssignIds(text_blocks, FinalSortedBlocks(text_blocks))
    /\ input_blocks' = text_blocks
    /\ op' = "sort_text_blocks_by_reading_order"
    /\ UNCHANGED <<threshold, removed_count>>
    /\ UNCHANGED <<document_vars, measured>>

\* One iteration of the page loop of process_pdf: the page of a successful
\* OCR with a TextBlock per detection, or the page of a failed one.
AppendPage ==
    /\ op \in {"init", "append_page"}
    /\ Len(pages) < MaxPages
    /\ \/ \E ds \in DetectionLists :
             pages' = Append(pages,
                 [page_number     |-> Len(pages) + 1,
                  text_blocks     |-> [k \in 1..Len(ds) |->
                                         [oid        |-> k,
                                          text       |-> ds[k].text,
                                          bbox       |-> ds[k].bbox,
                                          confidence |-> ds[k].confidence,
                                          direction  |-> ds[k].direction,
                                          block_id   |-> k]],
                  page_width      |-> 3,
                  page_height     |-> 4,
                  success         |-> TRUE,
                  error           |-> "None",
                  processing_time |-> <<1, 2>>])
       \/ pages' = Append(pages,
                 [page_number     |-> Len(pages) + 1,
                  text_blocks     |-> << >>,
                  page_width      |-> 3,
                  page_height     |-> 4,
                  success         |-> FALSE,
                  error           |-> "error",
                  processing_time |-> <<1, 2>>])
    /\ op' = "append_page"
    /\ UNCHANGED <<page_vars, input_pages, page_order, measured>>

\* sort_document_text_blocks(document_result)
SortDocumentTextBlocks ==
    /\ op \in {"init", "append_page"}
    /\ pages' = SortDocumentFrom(pages, 1)
    /\ input_pages' = pages
    /\ page_order' = [i \in 1..Len(pages) |-> i]
    /\ op' = "sort_document_text_blocks"
    /\ UNCHANGED <<page_vars, measured>>

\* The body of the loop of sort_document_text_blocks run for one page that
\* has not been sorted yet, whichever it is; the first one begins the run.
SortPage ==
    LET begun == op = "sort_page"
        done  == IF begun THEN {page_order[k] : k \in 1..Len(page_order)} ELSE {}
    IN  /\ op \in {"init", "append_page", "sort_page"}
        /\ \E i \in (1..Len(pages)) \ done :
              /\ pages' = SortPageAt(pages, i)
              /\ page_order' = IF begun THEN Append(page_order, i) ELSE <<i>>
        /\ input_pages' = IF begun THEN input_pages ELSE pages
        /\ op' = "sort_page"
        /\ UNCHANGED <<page_vars, measured>>

\* Documents through sort_document_text_blocks, and through its loop body
\* with the pages taken in any order.
NextDocument ==
    \/ AppendPage
    \/ SortDocumentTextBlocks
    \/ SortPage

SpecDocument == Init /\ [][NextDocument]_vars

\* a.area, b.area
CallArea ==
    /\ Len(text_blocks) = 2
    /\ measured' = [method |-> "area",
                    a      |-> Area(text_blocks[1].bbox),
                    b      |-> Area(text_blocks[2].bbox)]
    /\ op' = "area"
    /\ UNCHANGED <<page_vars, document_vars>>

\* a.intersection_area(b), b.intersection_area(a), a.overlap_ratio(b) and
\* b.overlap_ratio(a)
CallOverlapMethods ==
    /\ Len(text_blocks) = 2
    /\ LET a == text_blocks[1].bbox
           b == text_blocks[2].bbox
       IN  measured' = [method               |-> "overlap",
                        intersection_area_ab |-> IntersectionArea(a, b),
                        intersection_area_ba |-> IntersectionArea(b, a),
                        overlap_ratio_ab     |-> OverlapRatio(a, b),
                        overlap_ratio_ba     |-> OverlapRatio(b, a)]
    /\ op' = "overlap"
    /\ UNCHANGED <<page_vars, document_vars>>

\* The methods of BoundingBox on any two boxes of the grid.
NextGeometry ==
    \/ CallArea
    \/ CallOverlapMethods

SpecGeometry == InitGeometry /\ [][NextGeometry]_vars

\* Pages of well-formed detections through the reading-order pipeline.
Next ==
    \/ AppendTextBlock(Detections, MaxBlocks)
    \/ SortTextBlocksByReadingOrder

Spec == Init /\ [][Next]_vars

\* Pages of any detections through the reading-order pipeline.
NextAny ==
    \/ AppendTextBlock(AnyDetections, MaxBlocks)
    \/ SortTextBlocksByReadingOrder

SpecAny == Init /\ [][NextAny]_vars

\* Pages through the duplicate filter.
NextDedup ==
    \/ AppendTextBlock(DedupDetections, MaxBlocks)
    \/ RemoveDuplicateBlocks

SpecDedup == Init /\ [][NextDedup]_vars

\* Pages through the merger alone.
NextMerge ==
    \/ AppendTextBlock(Detections, MaxBlocks)
    \/ CallMergeOverlappingTextBlocks

SpecMerge == Init /\ [][NextMerge]_vars

\* Blocks of different text and confidence through the merger alone.
NextMergeFields ==
    \/ AppendTextBlock(FieldDetections, MaxBlocks)
    \/ CallMergeOverlappingTextBlocks

SpecMergeFields == Init /\ [][NextMergeFields]_vars

\* Pages with boxes without extent through the duplicate remover and the
\* merger.
NextDegenerate ==
    \/ AppendTextBlock(DegenerateDetections, MaxBlocks)
    \/ RemoveDuplicateBlocks
    \/ CallMergeOverlappingTextBlocks

SpecDegenerate == Init /\ [][NextDegenerate]_vars

\* Any boxes through the row sorter and the column sorter.
NextGroups ==
    \/ AppendTextBlock(GroupDetections, MaxBlocks)
    \/ CallSortHorizontalTextBlocks
    \/ CallSortVerticalTextBlocks

SpecGroups == Init /\ [][NextGroups]_vars

\* Groups whose first member after sorting is not their founder.
NextGroupKeys ==
    \/ AppendTextBlock(KeyDetections, MaxBlocks)
    \/ CallSortHorizontalTextBlocks
    \/ CallSortVerticalTextBlocks

SpecGroupKeys == Init /\ [][NextGroupKeys]_vars

\* Horizontal blocks through the row sorter alone.
NextRows ==
    \/ AppendTextBlock(RowDetections, MaxBlocks)
    \/ CallSortHorizontalTextBlocks

SpecRows == Init /\ [][NextRows]_vars

\* Vertical blocks through the column sorter alone.
NextColumns ==
    \/ AppendTextBlock(ColumnDetections, MaxBlocks)
    \/ CallSortVerticalTextBlocks

SpecColumns == Init /\ [][NextColumns]_vars

----------------------------------------------------------------------------
\* Vocabulary of the properties.

Oids(blocks) == {blocks[i].oid : i \in 1..Len(blocks)}

\* The positions of blocks at which the object oid stands.
PositionsOf(blocks, oid) == {k \in 1..Len(blocks) : blocks[k].oid = oid}

\* box a lies within box b.
Contains(b, a) == b.x0 <= a.x0 /\ b.y0 <= a.y0 /\ a.x1 <= b.x1 /\ a.y1 <= b.y1

\* The input indices that merging leaves alone: the clusters of one member.
Unmerged(blocks) ==
    LET clusters == MergeClusters(blocks, 1, {})
    IN  {i \in 1..Len(blocks) : \E k \in 1..Len(clusters) : clusters[k] = {i}}

Sorted == op = "sort_text_blocks_by_reading_order"

Deduped == op = "remove_duplicate_blocks"

----------------------------------------------------------------------------
\* Reading-order pipeline.

\* C1: after sort_text_blocks_by_reading_order the returned blocks carry the
\* ids 1..N in emission order, N the length of the output, whatever ids the
\* blocks had before.
C1_SequenceIdsAreOneToN ==
    Sorted => \A k \in 1..Len(result_blocks) : result_blocks[k].block_id = k

\* A sorted page that holds a merged block whose provisional id is not its
\* position, from a page on which two blocks had the same id.
C1_Witness ==
    /\ Sorted
    /\ \E i, j \in 1..Len(input_blocks) :
          i # j /\ input_blocks[i].block_id = input_blocks[j].block_id
    /\ LET merged == MergeOverlappingTextBlocks(input_blocks)
       IN  \E m \in 1..Len(merged), k \in 1..Len(result_blocks) :
              /\ merged[m].oid \notin Oids(input_blocks)
              /\ result_blocks[k].oid = merged[m].oid
              /\ merged[m].block_id # k
              /\ result_blocks[k].block_id = k

\* C2: every input block that merging did not absorb is in the output of
\* sort_text_blocks_by_reading_order exactly once, and the output has one
\* block per merge cluster.
C2_NoBlockLostOrDuplicated ==
    Sorted =>
        /\ Len(result_blocks) = Len(MergeClusters(input_blocks, 1, {}))
        /\ \A i \in Unmerged(input_blocks) :
              Cardinality(PositionsOf(result_blocks, input_blocks[i].oid)) = 1

\* C3: a block whose direction is neither "horizontal" nor "vertical", or
\* whose confidence is outside [0, 1], comes out of
\* sort_text_blocks_by_reading_order with text, bbox, confidence and direction
\* as they went in.
C3_MalformedPropagated ==
    Sorted =>
        \A i \in Unmerged(input_blocks) :
            LET b         == input_blocks[i]
                malformed == \/ b.direction \notin {"horizontal", "vertical"}
                             \/ RatGT(b.confidence, <<1, 1>>)
                             \/ RatGT(<<0, 1>>, b.confidence)
            IN  malformed
                => \E k \in 1..Len(result_blocks) :
                      /\ result_blocks[k].oid = b.oid
                      /\ result_blocks[k].text = b.text
                      /\ result_blocks[k].bbox = b.bbox
                      /\ result_blocks[k].confidence = b.confidence
                      /\ result_blocks[k].direction = b.direction

\* Top y of the union box of the blocks at the positions S of the output.
TopOf(S) == MinOf({result_blocks[k].bbox.y0 : k \in S})

VerticalAt == {k \in 1..Len(result_blocks) : result_blocks[k].direction = "vertical"}

HorizontalAt == {k \in 1..Len(result_blocks) : result_blocks[k].direction = "horizontal"}

\* C4: with both directions on the page after merging, the vertical blocks
\* all come before the horizontal ones when the top of their union box is
\* smaller, all after when it is larger, and the two are never interleaved.
C4_BinarySplit ==
    Sorted /\ VerticalAt # {} /\ HorizontalAt # {} =>
        /\ TopOf(VerticalAt) < TopOf(HorizontalAt)
              => \A v \in VerticalAt, h \in HorizontalAt : v < h
        /\ TopOf(VerticalAt) > TopOf(HorizontalAt)
              => \A v \in VerticalAt, h \in HorizontalAt : h < v
        /\ \/ \A v \in VerticalAt, h \in HorizontalAt : v < h
           \/ \A v \in VerticalAt, h \in HorizontalAt : h < v

\* The vertical group is higher and comes first as a whole, although one of
\* its blocks starts no higher than a horizontal block emitted after it.
C4_Witness ==
    /\ Sorted
    /\ VerticalAt # {} /\ HorizontalAt # {}
    /\ TopOf(VerticalAt) < TopOf(HorizontalAt)
    /\ \E v \in VerticalAt, h \in HorizontalAt :
          v < h /\ result_blocks[v].bbox.y0 >= result_blocks[h].bbox.y0

----------------------------------------------------------------------------
\* Rows and columns.

\* The positions in the output of the members of a group.
Span(group) ==
    UNION {PositionsOf(result_blocks, group[i].oid) : i \in 1..Len(group)}

IsRun(S) == S = MinOf(S)..MaxOf(S)

SamePopulation ==
    /\ Len(result_blocks) = Len(input_blocks)
    /\ \A i \in 1..Len(input_blocks) :
          \E k \in 1..Len(result_blocks) : result_blocks[k] = input_blocks[i]

\* C5: sort_horizontal_text_blocks emits every row as one run ordered by
\* ascending x0, and the rows by ascending center y, the center y of a row
\* being that of the member it emits first.
C5_RowsLeftToRightTopToBottom ==
    op = "sort_horizontal_text_blocks" =>
        LET rows == Rows(input_blocks, Len(input_blocks))
            G    == 1..Len(rows)
            r    == result_blocks
        IN  /\ SamePopulation
            /\ \A g \in G : IsRun(Span(rows[g]))
            /\ \A g \in G : \A k \in Span(rows[g]) :
                  k + 1 \in Span(rows[g]) => r[k].bbox.x0 <= r[k + 1].bbox.x0
            /\ \A g, h \in G :
                  MinOf(Span(rows[g])) < MinOf(Span(rows[h]))
                  => CenterY2(r[MinOf(Span(rows[g]))].bbox)
                        <= CenterY2(r[MinOf(Span(rows[h]))].bbox)

\* Scenario A of the specification on the grid: y ranges [0,1], [0,1], [1,2] with x0
\* 2, 1, 0 come out as x0 = 1, 2, 0.
C5_Witness ==
    /\ op = "sort_horizontal_text_blocks"
    /\ Len(input_blocks) = 3
    /\ input_blocks[1].bbox = [x0 |-> 2, y0 |-> 0, x1 |-> 3, y1 |-> 1]
    /\ input_blocks[2].bbox = [x0 |-> 1, y0 |-> 0, x1 |-> 2, y1 |-> 1]
    /\ input_blocks[3].bbox = [x0 |-> 0, y0 |-> 1, x1 |-> 1, y1 |-> 2]
    /\ [k \in 1..3 |-> result_blocks[k].oid] = <<2, 1, 3>>

\* C6: sort_vertical_text_blocks emits every column as one run ordered by
\* ascending top y, and the columns by descending center x, the center x of a
\* column being that of the member it emits first.
C6_ColumnsTopToBottomRightToLeft ==
    op = "sort_vertical_text_blocks" =>
        LET columns == Columns(input_blocks, Len(input_blocks))
            G       == 1..Len(columns)
            r       == result_blocks
        IN  /\ SamePopulation
            /\ \A g \in G : IsRun(Span(columns[g]))
            /\ \A g \in G : \A k \in Span(columns[g]) :
                  k + 1 \in Span(columns[g]) => r[k].bbox.y0 <= r[k + 1].bbox.y0
            /\ \A g, h \in G :
                  MinOf(Span(columns[g])) < MinOf(Span(columns[h]))
                  => CenterX2(r[MinOf(Span(columns[g]))].bbox)
                        >= CenterX2(r[MinOf(Span(columns[h]))].bbox)

\* Two columns, the left one given first and its two members bottom first:
\* the right column comes out first, the left one after it, top to bottom.
C6_Witness ==
    /\ op = "sort_vertical_text_blocks"
    /\ Len(input_blocks) = 3
    /\ input_blocks[1].bbox = [x0 |-> 0, y0 |-> 1, x1 |-> 1, y1 |-> 2]
    /\ input_blocks[2].bbox = [x0 |-> 0, y0 |-> 0, x1 |-> 1, y1 |-> 1]
    /\ input_blocks[3].bbox = [x0 |-> 1, y0 |-> 2, x1 |-> 2, y1 |-> 3]
    /\ [k \in 1..3 |-> result_blocks[k].oid] = <<3, 2, 1>>

----------------------------------------------------------------------------
\* Duplicate filter.

\* The k-th smallest member of a set of numbers.
KthOf(S, k) == CHOOSE x \in S : Cardinality({y \in S : y < x}) = k - 1

\* sub is seq with exactly the entries at the indices S deleted.
IsSeqWithout(sub, seq, S) ==
    LET kept == (1..Len(seq)) \ S
    IN  /\ Len(sub) = Cardinality(kept)
        /\ \A k \in 1..Len(sub) : sub[k] = seq[KthOf(kept, k)]

\* block a is swallowed by block b at threshold t.
Swallows(b, a, t) ==
    RatGE(OverlapRatio(a.bbox, b.bbox), t) /\ Area(a.bbox) < Area(b.bbox)

\* C7: running remove_duplicate_blocks again with the same threshold on its
\* own output removes nothing.
C7_DedupIdempotentInLength ==
    Deduped =>
        /\ DedupCount(text_blocks, threshold) = 0
        /\ Len(DedupBlocks(text_blocks, threshold)) = Len(text_blocks)

\* A pass that removed a block and left at least two to compare again.
C7_Witness ==
    Deduped /\ removed_count >= 1 /\ Len(text_blocks) >= 2

\* C8: after remove_duplicate_blocks no kept block is swallowed by another kept
\* block; so of a block inside a larger kept block that swallows it, only the
\* larger is kept, wherever the two stood in the input.
C8_NoKeptBlockSwallowed ==
    Deduped =>
        /\ \A i, j \in 1..Len(text_blocks) :
              i # j => ~Swallows(text_blocks[j], text_blocks[i], threshold)
        /\ \A i, j \in 1..Len(input_blocks) :
              /\ i # j
              /\ Contains(input_blocks[j].bbox, input_blocks[i].bbox)
              /\ Swallows(input_blocks[j], input_blocks[i], threshold)
              /\ input_blocks[j].oid \in Oids(text_blocks)
              => input_blocks[i].oid \notin Oids(text_blocks)

\* A larger block kept, with a block inside it before it and another after
\* it, both removed.
C8_Witness ==
    /\ Deduped
    /\ Len(input_blocks) = 3
    /\ Contains(input_blocks[2].bbox, input_blocks[1].bbox)
    /\ Contains(input_blocks[2].bbox, input_blocks[3].bbox)
    /\ Area(input_blocks[1].bbox) < Area(input_blocks[2].bbox)
    /\ Area(input_blocks[3].bbox) < Area(input_blocks[2].bbox)
    /\ Oids(text_blocks) = {input_blocks[2].oid}

\* C9: remove_duplicate_blocks leaves the page's list with some entries
\* deleted and nothing else changed, returns the number of entries deleted,
\* and on a page of at most one block deletes nothing and returns 0.
C9_DedupOnlyDeletes ==
    Deduped =>
        /\ \E S \in SUBSET (1..Len(input_blocks)) :
              IsSeqWithout(text_blocks, input_blocks, S) /\ removed_count = Cardinality(S)
        /\ Len(input_blocks) <= 1 => text_blocks = input_blocks /\ removed_count = 0

\* The middle block of three removed, the outer two kept in their order.
C9_Witness ==
    /\ Deduped
    /\ Len(input_blocks) = 3
    /\ text_blocks = <<input_blocks[1], input_blocks[3]>>
    /\ removed_count = 1

----------------------------------------------------------------------------
\* Merger.

Merged == op = "merge_overlapping_text_blocks"

\* C10: merge_overlapping_text_blocks returns no more blocks than it was
\* given, and the bbox of every block it builds contains the bbox of each
\* block of its cluster.
C10_MergeShrinksAndCovers ==
    Merged =>
        /\ Len(result_blocks) <= Len(input_blocks)
        /\ LET clusters == MergeClusters(input_blocks, 1, {})
           IN  \A k \in 1..Len(result_blocks) :
                  result_blocks[k].oid \notin Oids(input_blocks)
                  => \A i \in clusters[k] :
                        Contains(result_blocks[k].bbox, input_blocks[i].bbox)

\* A block built from a cluster none of whose members has the union box.
C10_Witness ==
    /\ Merged
    /\ Len(result_blocks) < Len(input_blocks)
    /\ LET clusters == MergeClusters(input_blocks, 1, {})
       IN  \E k \in 1..Len(result_blocks) :
              /\ result_blocks[k].oid \notin Oids(input_blocks)
              /\ \A i \in clusters[k] : result_blocks[k].bbox # input_blocks[i].bbox


\* The sum over the indices S of confidences n/d of blocks, as a numerator
\* over the product of all the denominators.
RECURSIVE ProductOfDenominators(_, _)
ProductOfDenominators(blocks, S) ==
    IF S = {} THEN 1
    ELSE LET i == MinOf(S)
         IN  blocks[i].confidence[2] * ProductOfDenominators(blocks, S \ {i})

RECURSIVE SumOfNumerators(_, _, _)
SumOfNumerators(blocks, S, T) ==
    IF T = {} THEN 0
    ELSE LET i == MinOf(T)
         IN  blocks[i].confidence[1] * ProductOfDenominators(blocks, S \ {i})
                + SumOfNumerators(blocks, S, T \ {i})

\* C11: a cluster of more than one block comes out of
\* merge_overlapping_text_blocks as one new block whose bbox is the union
\* rectangle of the members, whose text is the text of a member no other
\* member's text is longer than, and whose confidence is the arithmetic mean
\* of the members' confidences.
C11_MergedBlockFields ==
    Merged =>
        LET clusters == MergeClusters(input_blocks, 1, {})
        IN  /\ Len(result_blocks) = Len(clusters)
            /\ \A k \in 1..Len(clusters) :
                  Cardinality(clusters[k]) > 1 =>
                      LET S == clusters[k]
                          m == result_blocks[k]
                      IN  /\ m.oid \notin Oids(input_blocks)
                          /\ m.bbox.x0 = MinOf({input_blocks[i].bbox.x0 : i \in S})
                          /\ m.bbox.y0 = MinOf({input_blocks[i].bbox.y0 : i \in S})
                          /\ m.bbox.x1 = MaxOf({input_blocks[i].bbox.x1 : i \in S})
                          /\ m.bbox.y1 = MaxOf({input_blocks[i].bbox.y1 : i \in S})
                          /\ \E i \in S :
                                /\ m.text = input_blocks[i].text
                                /\ \A j \in S :
                                      Len(input_blocks[j].text) <= Len(input_blocks[i].text)
                          /\ m.confidence[2] > 0
                          /\ m.confidence[1] * ProductOfDenominators(input_blocks, S)
                                             * Cardinality(S)
                                = SumOfNumerators(input_blocks, S, S) * m.confidence[2]

\* Two blocks merged: the longer text is the second one's, the confidences
\* 9/10 and 1/2 give 7/10, and the union box is neither member's.
C11_Witness ==
    /\ Merged
    /\ Len(input_blocks) = 2
    /\ Len(result_blocks) = 1
    /\ Len(input_blocks[1].text) < Len(input_blocks[2].text)
    /\ input_blocks[1].confidence = <<9, 10>>
    /\ input_blocks[2].confidence = <<1, 2>>
    /\ result_blocks[1].text = input_blocks[2].text
    /\ result_blocks[1].confidence = <<7, 10>>
    /\ result_blocks[1].bbox \notin {input_blocks[1].bbox, input_blocks[2].bbox}


SortedDocument == op = "sort_document_text_blocks"

\* A page of a failed OCR: no success and no blocks.
Failed(page) == ~page.success /\ page.text_blocks = << >>

\* C12: sort_document_text_blocks leaves the document with the same number
\* of pages in the same positions, each with the page_number, page_width,
\* page_height, success, error and processing_time it had; only text_blocks
\* of a page may differ.
C12_PagesKeptBlocksReplaced ==
    SortedDocument =>
        /\ Len(pages) = Len(input_pages)
        /\ \A i \in 1..Len(pages) :
              /\ pages[i].page_number = input_pages[i].page_number
              /\ pages[i].page_width = input_pages[i].page_width
              /\ pages[i].page_height = input_pages[i].page_height
              /\ pages[i].success = input_pages[i].success
              /\ pages[i].error = input_pages[i].error
              /\ pages[i].processing_time = input_pages[i].processing_time
              /\ DOMAIN pages[i] = DOMAIN input_pages[i]

\* A two-page document whose first page got another list of blocks.
C12_Witness ==
    /\ SortedDocument
    /\ Len(pages) = 2
    /\ pages[1].text_blocks # input_pages[1].text_blocks
    /\ pages[1].processing_time = <<1, 2>>
    /\ pages[2].page_number = 2

\* C13: sort_document_text_blocks leaves a failed page as it is, empty list
\* and flags, and every other page holds the result of the reading-order
\* pipeline on its blocks, whether it stands before or after a failed page.
C13_FailedPagePassesThrough ==
    SortedDocument =>
        \A i \in 1..Len(input_pages) :
            IF Failed(input_pages[i])
            THEN pages[i] = input_pages[i]
            ELSE /\ pages[i].text_blocks
                       = SortedPageBlocks(input_pages[i].text_blocks)
                 /\ \A k \in 1..Len(pages[i].text_blocks) :
                       pages[i].text_blocks[k].block_id = k

\* A failed first page, and a second page that was sorted into another list.
C13_Witness ==
    /\ SortedDocument
    /\ Len(input_pages) = 2
    /\ Failed(input_pages[1])
    /\ pages[1] = input_pages[1]
    /\ pages[2].text_blocks # input_pages[2].text_blocks

\* The pages have all been sorted one at a time.
SortedPageByPage == op = "sort_page" /\ Len(page_order) = Len(pages)

\* C14: when every page has been put through the loop body once, in whatever
\* order the pages were taken, the document is the one the loop of
\* sort_document_text_blocks makes of the same input from the first page to
\* the last.
C14_PageOrderIrrelevant ==
    SortedPageByPage => pages = SortDocumentFrom(input_pages, 1)

\* The second page was sorted before the first, and both changed.
C14_Witness ==
    /\ SortedPageByPage
    /\ page_order = <<2, 1>>
    /\ pages[1].text_blocks # input_pages[1].text_blocks
    /\ pages[2].text_blocks # input_pages[2].text_blocks


\* C15: when sort_text_blocks_by_reading_order returns, the page passed in
\* has the list of blocks it had before the call, and every block of it has
\* the fields it had, block_id included.
C15_InputPageUntouched ==
    Sorted => text_blocks = input_blocks


\* C16: a.intersection_area(b) equals b.intersection_area(a) for any two
\* boxes a and b; overlap_ratio has no such symmetry (the witness is a pair
\* with a.overlap_ratio(b) different from b.overlap_ratio(a)).
C16_IntersectionAreaSymmetric ==
    measured.method = "overlap" =>
        measured.intersection_area_ab = measured.intersection_area_ba

\* A unit square inside the 2 x 2 square: the shared area is 1 both ways, the
\* ratio is 1 for the small box and 1/4 for the large one.
C16_Witness ==
    /\ measured.method = "overlap"
    /\ text_blocks[1].bbox = [x0 |-> 0, y0 |-> 0, x1 |-> 1, y1 |-> 1]
    /\ text_blocks[2].bbox = [x0 |-> 0, y0 |-> 0, x1 |-> 2, y1 |-> 2]
    /\ measured.intersection_area_ab = 1
    /\ measured.intersection_area_ba = 1
    /\ measured.overlap_ratio_ab = <<1, 1>>
    /\ measured.overlap_ratio_ba = <<1, 4>>

\* A rectangle with x1 <= x0 or y1 <= y0.
Degenerate(b) == b.x1 <= b.x0 \/ b.y1 <= b.y0

\* C17: every box with x1 <= x0 or y1 <= y0 has area 0.
C17_DegenerateAreaZero ==
    measured.method = "area" =>
        /\ Degenerate(text_blocks[1].bbox) => measured.a = 0
        /\ Degenerate(text_blocks[2].bbox) => measured.b = 0


\* C18: a block whose box has x1 <= x0 or y1 <= y0 is not removed by
\* remove_duplicate_blocks with a threshold above 0, comes out of
\* merge_overlapping_text_blocks as the same block on its own, and none of
\* the divisions made when it is compared with another block divides by zero.
C18_DegenerateLeftAlone ==
    LET degenerate == {i \in 1..Len(input_blocks) :
                          Degenerate(input_blocks[i].bbox)}
    IN  /\ Deduped /\ RatGT(threshold, <<0, 1>>) =>
              \A i \in degenerate : input_blocks[i].oid \in Oids(text_blocks)
        /\ Merged =>
              \A i \in degenerate :
                  /\ i \in Unmerged(input_blocks)
                  /\ \E k \in 1..Len(result_blocks) :
                        result_blocks[k] = input_blocks[i]
        /\ Deduped \/ Merged =>
              \A i \in degenerate : \A j \in 1..Len(input_blocks) :
                  LET a == input_blocks[i].bbox
                      b == input_blocks[j].bbox
                  IN  ZeroDivisionError \notin
                          {OverlapRatio(a, b), OverlapRatio(b, a),
                           CalculateOverlapRatio(a, b),
                           CalculateOverlapRatio(b, a)}

\* The default threshold: the unit square is removed for the 2 x 2 square,
\* and the box without width inside that square stays.
C18_Witness ==
    /\ Deduped
    /\ threshold = DedupThreshold
    /\ Len(input_blocks) = 3
    /\ input_blocks[1].bbox = [x0 |-> 0, y0 |-> 0, x1 |-> 0, y1 |-> 2]
    /\ input_blocks[2].bbox = [x0 |-> 0, y0 |-> 0, x1 |-> 1, y1 |-> 1]
    /\ input_blocks[3].bbox = [x0 |-> 0, y0 |-> 0, x1 |-> 2, y1 |-> 2]
    /\ Len(text_blocks) = 2
    /\ text_blocks[1] = input_blocks[1]


\* The indices of the input blocks that remove_duplicate_blocks deleted.
RemovedIndices ==
    {i \in 1..Len(input_blocks) : input_blocks[i].oid \notin Oids(text_blocks)}

\* C19: remove_duplicate_blocks deletes the block at index i exactly when
\* some other block, not among the blocks before i that are deleted, has an
\* overlap_ratio of the block at i of at least the threshold and a larger
\* area; blocks after i count whether they are deleted or not, and the list
\* left is the input list without the deleted indices.
C19_GreedyForwardPass ==
    Deduped =>
        /\ \A i \in 1..Len(input_blocks) :
              i \in RemovedIndices
              <=> \E j \in (1..Len(input_blocks)) \ {i} :
                      /\ ~(j < i /\ j \in RemovedIndices)
                      /\ Swallows(input_blocks[j], input_blocks[i], threshold)
        /\ IsSeqWithout(text_blocks, input_blocks, RemovedIndices)
        /\ removed_count = Cardinality(RemovedIndices)

\* The threshold 1/2 and the blocks (0, 0, 1, 2), the unit square in it and
\* the wide box: the first is marked for the wide box, so the unit square,
\* which only the first covers, stays.
C19_Witness ==
    /\ Deduped
    /\ threshold = <<1, 2>>
    /\ Len(input_blocks) = 3
    /\ input_blocks[1].bbox = [x0 |-> 0, y0 |-> 0, x1 |-> 1, y1 |-> 2]
    /\ input_blocks[2].bbox = [x0 |-> 0, y0 |-> 0, x1 |-> 1, y1 |-> 1]
    /\ input_blocks[3].bbox = WideBox
    /\ Swallows(input_blocks[1], input_blocks[2], threshold)
    /\ RemovedIndices = {1}
    /\ text_blocks = <<input_blocks[2], input_blocks[3]>>


\* Blocks i and j of the input can be merged: same direction and a
\* calculate_overlap_ratio of at least the threshold.
Joinable(i, j) ==
    /\ input_blocks[i].direction = input_blocks[j].direction
    /\ RatGE(CalculateOverlapRatio(input_blocks[i].bbox, input_blocks[j].bbox),
             MergeThreshold)

\* The union rectangle of the input blocks with indices in S.
UnionBox(S) ==
    [x0 |-> MinOf({input_blocks[i].bbox.x0 : i \in S}),
     y0 |-> MinOf({input_blocks[i].bbox.y0 : i \in S}),
     x1 |-> MaxOf({input_blocks[i].bbox.x1 : i \in S}),
     y1 |-> MaxOf({input_blocks[i].bbox.y1 : i \in S})]

\* C20: merge_overlapping_text_blocks puts a later block into the cluster of
\* an anchor only if it overlaps the anchor itself enough.  With three blocks
\* A, B, C in list order: if B overlaps A enough and C overlaps B but not A,
\* the output is the merge of A and B followed by C on its own; if B and C
\* both overlap A enough but not each other, the output is one block that
\* covers all three.
C20_AnchorOnlyClusters ==
    Merged =>
        LET clusters == MergeClusters(input_blocks, 1, {})
        IN  /\ Len(result_blocks) = Len(clusters)
            /\ \A k \in 1..Len(clusters) :
                  /\ result_blocks[k].bbox = UnionBox(clusters[k])
                  /\ \A j \in clusters[k] \ {MinOf(clusters[k])} :
                        Joinable(MinOf(clusters[k]), j)
            /\ Len(input_blocks) = 3 /\ Joinable(1, 2) /\ Joinable(2, 3)
                  /\ ~Joinable(1, 3)
               => /\ Len(result_blocks) = 2
                  /\ result_blocks[1].bbox = UnionBox({1, 2})
                  /\ result_blocks[2] = input_blocks[3]
            /\ Len(input_blocks) = 3 /\ Joinable(1, 2) /\ Joinable(1, 3)
                  /\ ~Joinable(2, 3)
               => /\ Len(result_blocks) = 1
                  /\ result_blocks[1].bbox = UnionBox({1, 2, 3})

\* The left unit square, the 2 x 1 box and the right unit square in a row:
\* the third overlaps the second and not the first, and comes out unmerged.
C20_Witness ==
    /\ Merged
    /\ Len(input_blocks) = 3
    /\ input_blocks[1].bbox = [x0 |-> 0, y0 |-> 0, x1 |-> 1, y1 |-> 1]
    /\ input_blocks[2].bbox = [x0 |-> 0, y0 |-> 0, x1 |-> 2, y1 |-> 1]
    /\ input_blocks[3].bbox = [x0 |-> 1, y0 |-> 0, x1 |-> 2, y1 |-> 1]
    /\ Joinable(1, 2) /\ Joinable(2, 3) /\ ~Joinable(1, 3)
    /\ Len(result_blocks) = 2
    /\ result_blocks[2] = input_blocks[3]


\* C21: no cluster of merge_overlapping_text_blocks has two blocks of
\* different direction, however much they overlap: every output block has
\* the direction of each member of its cluster, and a page of blocks that
\* all differ in direction from one another comes out as it went in.
C21_ClustersOfOneDirection ==
    Merged =>
        LET clusters == MergeClusters(input_blocks, 1, {})
        IN  /\ Len(result_blocks) = Len(clusters)
            /\ \A k \in 1..Len(clusters) : \A i \in clusters[k] :
                  result_blocks[k].direction = input_blocks[i].direction
            /\ (\A i, j \in 1..Len(input_blocks) :
                   i # j => input_blocks[i].direction # input_blocks[j].direction)
               => result_blocks = input_blocks

\* Two blocks with the same box, one horizontal and one vertical: both come
\* out as they are.
C21_Witness ==
    /\ Merged
    /\ Len(input_blocks) = 2
    /\ input_blocks[1].bbox = input_blocks[2].bbox
    /\ input_blocks[1].direction # input_blocks[2].direction
    /\ RatGE(CalculateOverlapRatio(input_blocks[1].bbox, input_blocks[2].bbox),
             MergeThreshold)
    /\ result_blocks = input_blocks


----------------------------------------------------------------------------
\* Grouping into rows and columns.

SortedVertically == op = "sort_vertical_text_blocks"

SortedHorizontally == op = "sort_horizontal_text_blocks"

\* The length of the common part of the projections of a and b on the x axis
\* ("x") or the y axis ("y"), and the extent of a box along that axis.
ProjectionOverlap(a, b, axis) ==
    IF axis = "x" THEN Max(0, Min(a.x1, b.x1) - Max(a.x0, b.x0))
    ELSE Max(0, Min(a.y1, b.y1) - Max(a.y0, b.y0))

Extent(a, axis) == IF axis = "x" THEN a.x1 - a.x0 ELSE a.y1 - a.y0

\* The projections overlap by at least half the extent of either box.
SharesGroup(a, b, axis) ==
    \/ 2 * ProjectionOverlap(a, b, axis) >= Extent(a, axis)
    \/ 2 * ProjectionOverlap(a, b, axis) >= Extent(b, axis)

\* Input block i founds a group: it shares a group with no founder before it.
RECURSIVE IsFounder(_, _)
IsFounder(i, axis) ==
    \A f \in 1..(i - 1) :
        IsFounder(f, axis)
        => ~SharesGroup(input_blocks[i].bbox, input_blocks[f].bbox, axis)

Founders(axis) == {i \in 1..Len(input_blocks) : IsFounder(i, axis)}

\* The founder of the group of input block i: the earliest founder it shares
\* a group with, itself when there is none.
FounderOf(i, axis) ==
    IF IsFounder(i, axis) THEN i
    ELSE MinOf({f \in Founders(axis) :
                   f < i /\ SharesGroup(input_blocks[i].bbox,
                                        input_blocks[f].bbox, axis)})

\* groups is the list of the groups of the founders in founding order, each
\* with its members in input order, and each group is one run of the output.
GroupedByFounders(groups, axis) ==
    /\ Len(groups) = Cardinality(Founders(axis))
    /\ \A g \in 1..Len(groups) :
          LET f       == KthOf(Founders(axis), g)
              members == {i \in 1..Len(input_blocks) : FounderOf(i, axis) = f}
          IN  /\ Len(groups[g]) = Cardinality(members)
              /\ \A m \in 1..Len(groups[g]) :
                    groups[g][m] = input_blocks[KthOf(members, m)]
              /\ IsRun(Span(groups[g]))

\* C22: sort_vertical_text_blocks takes the blocks in input order and puts
\* each into the earliest-founded column whose founder's x projection
\* overlaps its own by at least half the width of either, or founds a new
\* column; no other member of a column is looked at.
\* sort_horizontal_text_blocks does the same for rows with y projections
\* and heights.
C22_GroupsByFounderOnly ==
    /\ SortedVertically =>
          GroupedByFounders(Columns(input_blocks, Len(input_blocks)), "x")
    /\ SortedHorizontally =>
          GroupedByFounders(Rows(input_blocks, Len(input_blocks)), "y")

\* x ranges [0,1], [0,2], [1,2]: the second joins the first, the third
\* overlaps the second but not the founder and founds a column of its own.
C22_Witness ==
    /\ SortedVertically
    /\ Len(input_blocks) = 3
    /\ input_blocks[1].bbox = [x0 |-> 0, y0 |-> 0, x1 |-> 1, y1 |-> 1]
    /\ input_blocks[2].bbox = [x0 |-> 0, y0 |-> 1, x1 |-> 2, y1 |-> 2]
    /\ input_blocks[3].bbox = [x0 |-> 1, y0 |-> 0, x1 |-> 2, y1 |-> 1]
    /\ SharesGroup(input_blocks[3].bbox, input_blocks[2].bbox, "x")
    /\ Founders("x") = {1, 3}
    /\ [k \in 1..3 |-> result_blocks[k].oid] = <<3, 1, 2>>


\* The projections of a and b overlap by exactly half the extent of one.
ExactlyHalf(a, b, axis) ==
    \/ 2 * ProjectionOverlap(a, b, axis) = Extent(a, axis)
    \/ 2 * ProjectionOverlap(a, b, axis) = Extent(b, axis)

\* No block whose projection overlaps that of an earlier founder of groups by
\* exactly half of one of the two extents founds a group itself.
HalfOverlapJoins(groups, axis) ==
    \A i, j \in 1..Len(input_blocks) :
        /\ j < i
        /\ \E g \in 1..Len(groups) : groups[g][1] = input_blocks[j]
        /\ ExactlyHalf(input_blocks[i].bbox, input_blocks[j].bbox, axis)
        => ~\E h \in 1..Len(groups) : groups[h][1] = input_blocks[i]

\* C23: the grouping threshold is inclusive.  A block whose x projection
\* overlaps that of a column's founder by exactly 0.5 times the width of one
\* of the two joins a column; of two such blocks alone, both are in one
\* column.  The same holds for rows with y projections and heights.
C23_GroupingThresholdInclusive ==
    /\ SortedVertically =>
          LET columns == Columns(input_blocks, Len(input_blocks))
          IN  /\ HalfOverlapJoins(columns, "x")
              /\ Len(input_blocks) = 2
                    /\ ExactlyHalf(input_blocks[1].bbox, input_blocks[2].bbox, "x")
                 => /\ Len(columns) = 1
                    /\ result_blocks[1].bbox.y0 <= result_blocks[2].bbox.y0
    /\ SortedHorizontally =>
          LET rows == Rows(input_blocks, Len(input_blocks))
          IN  /\ HalfOverlapJoins(rows, "y")
              /\ Len(input_blocks) = 2
                    /\ ExactlyHalf(input_blocks[1].bbox, input_blocks[2].bbox, "y")
                 => /\ Len(rows) = 1
                    /\ result_blocks[1].bbox.x0 <= result_blocks[2].bbox.x0

\* The 2 x 2 square and the shifted one: the x overlap 1 is exactly half of
\* both widths and more than half of neither; they form one column and come
\* out top first, where two columns would come out right first.
C23_Witness ==
    /\ SortedVertically
    /\ Len(input_blocks) = 2
    /\ input_blocks[1].bbox = [x0 |-> 0, y0 |-> 0, x1 |-> 2, y1 |-> 2]
    /\ input_blocks[2].bbox = ShiftedBox
    /\ 2 * ProjectionOverlap(input_blocks[1].bbox, input_blocks[2].bbox, "x")
          = Extent(input_blocks[1].bbox, "x")
    /\ Extent(input_blocks[1].bbox, "x") = Extent(input_blocks[2].bbox, "x")
    /\ result_blocks = input_blocks


----------------------------------------------------------------------------
\* Duplicate filter: what is kept.

\* The largest area of a block of the input.
MaxArea == MaxOf({Area(input_blocks[i].bbox) : i \in 1..Len(input_blocks)})

\* C24: remove_duplicate_blocks keeps every block whose area no block of the
\* page exceeds, so a page with blocks keeps at least one, and a page whose
\* blocks all have the same area, exact duplicates for one, is left as it is.
C24_LargestBlocksKept ==
    Deduped /\ input_blocks # << >> =>
        /\ \A i \in 1..Len(input_blocks) :
              Area(input_blocks[i].bbox) = MaxArea
              => \E k \in 1..Len(text_blocks) : text_blocks[k] = input_blocks[i]
        /\ text_blocks # << >>
        /\ (\A i \in 1..Len(input_blocks) : Area(input_blocks[i].bbox) = MaxArea)
           => text_blocks = input_blocks /\ removed_count = 0

\* Two blocks with the same proper box at the default threshold: each covers
\* the other entirely and both are kept.
C24_Witness ==
    /\ Deduped
    /\ threshold = DedupThreshold
    /\ Len(input_blocks) = 2
    /\ input_blocks[1].bbox = input_blocks[2].bbox
    /\ OverlapRatio(input_blocks[1].bbox, input_blocks[2].bbox) = <<1, 1>>
    /\ text_blocks = input_blocks


\* The boxes of a list of blocks.
BoxesOf(blocks) == {blocks[k].bbox : k \in 1..Len(blocks)}

\* C25: remove_duplicate_blocks removes a block only on account of a larger
\* block that covers it by the threshold and was not marked when the block
\* was examined: one that is kept, or one that comes later in the list and is
\* marked later in the pass.  So a removed block need not be covered by any
\* kept block, and another order of the same blocks can keep other blocks
\* (the witness is such a page).
C25_RemovedForUnmarkedBlock ==
    Deduped =>
        \A i \in RemovedIndices :
            \E j \in (1..Len(input_blocks)) \ {i} :
                /\ Swallows(input_blocks[j], input_blocks[i], threshold)
                /\ j > i \/ j \notin RemovedIndices

\* The threshold 1/2 and the unit square, the box (0, 0, 1, 2) around it and
\* the wide box: the unit square goes for the second box and that one for
\* the wide box, which covers nothing of the unit square; with the first two
\* blocks exchanged the unit square is kept.
C25_Witness ==
    /\ Deduped
    /\ threshold = <<1, 2>>
    /\ Len(input_blocks) = 3
    /\ input_blocks[1].bbox = [x0 |-> 0, y0 |-> 0, x1 |-> 1, y1 |-> 1]
    /\ input_blocks[2].bbox = [x0 |-> 0, y0 |-> 0, x1 |-> 1, y1 |-> 2]
    /\ input_blocks[3].bbox = WideBox
    /\ text_blocks = <<input_blocks[3]>>
    /\ \A k \in 1..Len(text_blocks) :
          ~RatGE(OverlapRatio(input_blocks[1].bbox, text_blocks[k].bbox), threshold)
    /\ BoxesOf(DedupBlocks(<<input_blocks[2], input_blocks[1], input_blocks[3]>>,
                           threshold))
          = {input_blocks[1].bbox, WideBox}


----------------------------------------------------------------------------
\* Merging: clusters and passes.

\* C26: the clusters of merge_overlapping_text_blocks partition the input:
\* every input block is in exactly one cluster, as its anchor or as a block
\* taken in by one earlier anchor.  The output has one block per cluster, the
\* block itself for a cluster of one and a new block otherwise, in the order
\* of the anchors in the input.
C26_ClustersPartitionInput ==
    Merged =>
        LET clusters == MergeClusters(input_blocks, 1, {})
            K        == 1..Len(clusters)
        IN  /\ \A i \in 1..Len(input_blocks) :
                  Cardinality({k \in K : i \in clusters[k]}) = 1
            /\ \A k \in K : clusters[k] # {} /\ clusters[k] \subseteq 1..Len(input_blocks)
            /\ \A k, l \in K : k < l => MinOf(clusters[k]) < MinOf(clusters[l])
            /\ Len(result_blocks) = Len(clusters)
            /\ \A k \in K :
                  IF Cardinality(clusters[k]) = 1
                  THEN result_blocks[k] = input_blocks[MinOf(clusters[k])]
                  ELSE /\ result_blocks[k].oid \notin Oids(input_blocks)
                       /\ result_blocks[k].bbox = UnionBox(clusters[k])
            /\ \A k, l \in K : k # l => result_blocks[k].oid # result_blocks[l].oid

\* The third block joins the first: the new block comes out first, at the
\* place of its anchor, and the second block after it.
C26_Witness ==
    /\ Merged
    /\ Len(input_blocks) = 3
    /\ MergeClusters(input_blocks, 1, {}) = <<{1, 3}, {2}>>
    /\ Len(result_blocks) = 2
    /\ result_blocks[1].bbox = UnionBox({1, 3})
    /\ result_blocks[2] = input_blocks[2]


\* The output blocks k and l of the merge could be merged with each other.
StillJoinable(k, l) ==
    /\ result_blocks[k].direction = result_blocks[l].direction
    /\ RatGE(CalculateOverlapRatio(result_blocks[k].bbox, result_blocks[l].bbox),
             MergeThreshold)

\* C27: merge_overlapping_text_blocks makes one pass: the output has one
\* block per cluster of the input, a new block is the union of its cluster
\* and nothing more, and two output blocks of one direction that overlap by
\* the threshold are never both input blocks.  A new block can overlap
\* another output block by the threshold, and merging the output again can
\* leave fewer blocks (the witness is such a page).
C27_MergeIsOnePass ==
    Merged =>
        LET clusters == MergeClusters(input_blocks, 1, {})
        IN  /\ Len(result_blocks) = Len(clusters)
            /\ \A k \in 1..Len(result_blocks) :
                  result_blocks[k].oid \notin Oids(input_blocks)
                  => result_blocks[k].bbox = UnionBox(clusters[k])
            /\ \A k, l \in 1..Len(result_blocks) :
                  k # l /\ StillJoinable(k, l)
                  => \/ result_blocks[k].oid \notin Oids(input_blocks)
                     \/ result_blocks[l].oid \notin Oids(input_blocks)

\* The left unit square, then the 2 x 1 box, then the right unit square: the
\* first two merge into the 2 x 1 box, which contains the third; a second
\* merge makes one block of the two.
C27_Witness ==
    /\ Merged
    /\ Len(input_blocks) = 3
    /\ Len(result_blocks) = 2
    /\ result_blocks[1].oid \notin Oids(input_blocks)
    /\ result_blocks[2] = input_blocks[3]
    /\ StillJoinable(1, 2)
    /\ Len(MergeOverlappingTextBlocks(result_blocks)) = 1


\* The member of a group, given in input order, with the least top y ("y")
\* or left x ("x"), the earliest of them when several have it.
LowestMember(group, axis) ==
    LET at(m) == IF axis = "y" THEN group[m].bbox.y0 ELSE group[m].bbox.x0
        least == MinOf({at(m) : m \in 1..Len(group)})
    IN  group[MinOf({m \in 1..Len(group) : at(m) = least})]

\* The groups come out in ascending order of key, groups of equal key in the
\* order of founding, and each group starts with the member lead(g).
OrderedByKey(groups, key(_), lead(_)) ==
    \A g \in 1..Len(groups) :
        /\ result_blocks[MinOf(Span(groups[g]))] = lead(g)
        /\ \A h \in 1..Len(groups) :
              MinOf(Span(groups[g])) < MinOf(Span(groups[h]))
              <=> \/ key(g) < key(h)
                  \/ key(g) = key(h) /\ g < h

\* C28: sort_vertical_text_blocks orders the columns by descending center x
\* of the topmost member of each column, and sort_horizontal_text_blocks the
\* rows by ascending center y of the leftmost member of each row; the
\* founder of the group and the box around the group do not enter.
C28_GroupKeyFromFirstSortedMember ==
    /\ SortedVertically =>
          LET columns == Columns(input_blocks, Len(input_blocks))
              top(g)  == LowestMember(columns[g], "y")
              key(g)  == -CenterX2(top(g).bbox)
          IN  OrderedByKey(columns, key, top)
    /\ SortedHorizontally =>
          LET rows    == Rows(input_blocks, Len(input_blocks))
              left(g) == LowestMember(rows[g], "x")
              key(g)  == CenterY2(left(g).bbox)
          IN  OrderedByKey(rows, key, left)

\* The narrow box on the right founds a column that the wide box joins and
\* tops; the third box founds a second column.  The centers are 3.5 for the
\* founder, 2 for the wide box and 2.5 for the third box, which comes out
\* first: by the founder's center the first column would.
C28_Witness ==
    /\ SortedVertically
    /\ Len(input_blocks) = 3
    /\ input_blocks[1].bbox = [x0 |-> 3, y0 |-> 1, x1 |-> 4, y1 |-> 2]
    /\ input_blocks[2].bbox = [x0 |-> 0, y0 |-> 0, x1 |-> 4, y1 |-> 1]
    /\ input_blocks[3].bbox = [x0 |-> 2, y0 |-> 0, x1 |-> 3, y1 |-> 1]
    /\ Len(Columns(input_blocks, 3)) = 2
    /\ result_blocks = <<input_blocks[3], input_blocks[2], input_blocks[1]>>


----------------------------------------------------------------------------
\* The order of the two directions.

\* C29: when the highest vertical block and the highest horizontal block of
\* the page start at the same y, sort_text_blocks_by_reading_order returns
\* all vertical blocks before all horizontal ones.
C29_VerticalFirstOnEqualTops ==
    /\ Sorted
    /\ VerticalAt # {} /\ HorizontalAt # {}
    /\ TopOf(VerticalAt) = TopOf(HorizontalAt)
    => \A v \in VerticalAt, h \in HorizontalAt : v < h

\* A horizontal block given first and a vertical block beside it, both with
\* top 0: the vertical one comes out first.
C29_Witness ==
    /\ Sorted
    /\ Len(input_blocks) = 2
    /\ input_blocks[1].direction = "horizontal"
    /\ input_blocks[2].direction = "vertical"
    /\ input_blocks[1].bbox.y0 = input_blocks[2].bbox.y0
    /\ Len(result_blocks) = 2
    /\ result_blocks[1].oid = input_blocks[2].oid
    /\ result_blocks[2].oid = input_blocks[1].oid


----------------------------------------------------------------------------
\* Grouping of boxes without extent.

\* The index in groups of the group that holds the input block i.
GroupIndexOf(groups, i) ==
    CHOOSE g \in 1..Len(groups) :
        \E m \in 1..Len(groups[g]) : groups[g][m] = input_blocks[i]

\* A block of extent <= 0 that is not the first of the list is in the first
\* group, and no block after a founder of extent <= 0 is in a group founded
\* later than that founder's.
ExtentlessJoins(groups, axis) ==
    /\ \A i \in 2..Len(input_blocks) :
          Extent(input_blocks[i].bbox, axis) <= 0 => GroupIndexOf(groups, i) = 1
    /\ \A j, i \in 1..Len(input_blocks) :
          /\ j < i
          /\ Extent(input_blocks[j].bbox, axis) <= 0
          /\ groups[GroupIndexOf(groups, j)][1] = input_blocks[j]
          => GroupIndexOf(groups, i) <= GroupIndexOf(groups, j)

\* C30: in sort_vertical_text_blocks a block of width <= 0 joins the first
\* column, wherever it lies, and every block after a column founder of width
\* <= 0 joins that column unless an earlier column takes it; the overlap of
\* the projections may be 0.  In sort_horizontal_text_blocks the same holds
\* for rows and heights <= 0.
C30_ExtentlessBoxesAlwaysGroup ==
    /\ SortedVertically =>
          ExtentlessJoins(Columns(input_blocks, Len(input_blocks)), "x")
    /\ SortedHorizontally =>
          ExtentlessJoins(Rows(input_blocks, Len(input_blocks)), "y")

\* A unit square with x from 1 to 2 and then a box of no width at x = 0: the
\* projections share nothing, and the second box joins the column and comes
\* out first as the higher one, where a column of its own would come last.
C30_Witness ==
    /\ SortedVertically
    /\ Len(input_blocks) = 2
    /\ input_blocks[1].bbox = [x0 |-> 1, y0 |-> 1, x1 |-> 2, y1 |-> 2]
    /\ input_blocks[2].bbox = [x0 |-> 0, y0 |-> 0, x1 |-> 0, y1 |-> 2]
    /\ ProjectionOverlap(input_blocks[1].bbox, input_blocks[2].bbox, "x") = 0
    /\ Len(Columns(input_blocks, 2)) = 1
    /\ result_blocks = <<input_blocks[2], input_blocks[1]>>

====
